---- MODULE Spec2Model ----
(***************************************************************************)
(* A model of ModuleUtilHost (src/src/module-util/module-util-host.ts):    *)
(* the resolver that turns an import specifier and a starting directory    *)
(* into a file path, with its process-wide cache RESOLVED_PATHS.           *)
(*                                                                         *)
(* Strings are modelled structurally.  A path string is a record           *)
(*   [m |-> marker, segs |-> sequence of segments]                         *)
(* where the marker is "/" (absolute), "./" (relative), "" (bare) or       *)
(* "null" (the JavaScript null/undefined), and a segment is the sequence   *)
(* of its dot-separated parts: "foo.model.ts" is <<"foo","model","ts">>.   *)
(* An extension is [dot |-> BOOLEAN, parts |-> sequence of parts]:         *)
(* ".d.ts" is [dot |-> TRUE, parts |-> <<"d","ts">>].                      *)
(***************************************************************************)
EXTENDS Integers, Sequences, FiniteSets, TLC

VARIABLES
    allowedExtensions,   \* this.allowedExtensions (insertion-ordered Set)
    excludedExtensions,  \* this.excludedExtensions
    packageFields,       \* this.packageFields (insertion-ordered Set)
    builtInModules,      \* this.builtInModules
    RESOLVED_PATHS,      \* the static cache: key string -> resolved string
    last,                \* outcome of the most recent resolvePath call
    firstOutcome,        \* history: (filePath, from) -> outcome of its first call
                         \* through the resolver in use
    calls,               \* number of resolvePath calls made so far
    packageJson,         \* a parsed manifest handed to takeLibEntryPathFromPackage
    libEntry,            \* the entry path computed from packageJson
    lastOptions,         \* history: the argument of the most recent setOptions call
    walk                 \* a walk of the directory tree, followed step by step

vars == <<allowedExtensions, excludedExtensions, packageFields, builtInModules,
          RESOLVED_PATHS, last, firstOutcome, calls, packageJson, libEntry,
          lastOptions, walk>>

-----------------------------------------------------------------------------
(* Bounds of the model *)

\* resolvePath calls explored in one behaviour
MaxCalls == 2

-----------------------------------------------------------------------------
(* Strings *)

Null == [m |-> "null", segs |-> <<>>]
Empty == [m |-> "", segs |-> <<>>]
Abs(segs) == [m |-> "/", segs |-> segs]
Rel(segs) == [m |-> "./", segs |-> segs]
Bare(segs) == [m |-> "", segs |-> segs]
Root == Abs(<<>>)

Ext(parts) == [dot |-> TRUE, parts |-> parts]
RawExt(parts) == [dot |-> FALSE, parts |-> parts]

Front(s) == SubSeq(s, 1, Len(s) - 1)
Last(s) == s[Len(s)]

Range(s) == {s[i] : i \in 1..Len(s)}

\* a JavaScript Set built from an array keeps the first occurrence of each element
RECURSIVE Dedupe(_)
Dedupe(s) ==
    IF s = <<>> THEN <<>>
    ELSE LET rest == Dedupe(Front(s))
         IN IF Last(s) \in Range(rest) THEN rest ELSE Append(rest, Last(s))

\* path.join(p, "../")
Parent(p) == IF p.segs = <<>> THEN p ELSE [p EXCEPT !.segs = Front(p.segs)]

\* path.join(p, q) for a q without ".." segments
Join(p, q) == [p EXCEPT !.segs = p.segs \o q.segs]

\* String.prototype.includes(name) for a directory name
Includes(p, name) == \E i \in 1..Len(p.segs) : p.segs[i] = <<name>>

\* `${path}${ext}`: the extension is appended to the last segment
AppendExt(p, e) ==
    IF p.segs = <<>> THEN p
    ELSE LET seg == Last(p.segs)
             seg2 == IF e.dot THEN seg \o e.parts
                     ELSE Front(seg) \o <<Last(seg) \o e.parts[1]>> \o Tail(e.parts)
         IN [p EXCEPT !.segs = Front(p.segs) \o <<seg2>>]

-----------------------------------------------------------------------------
(* IPathUtil, the path-string collaborator *)

\* not beginning with a relative or absolute path marker
isLib(filePath) == filePath.m = ""

makeAbsolute(filePath, from) ==
    IF filePath.m = "/" THEN filePath ELSE Abs(from.segs \o filePath.segs)

hasExtension(p) == p.segs # <<>> /\ Len(Last(p.segs)) > 1

clearExtension(p) ==
    IF hasExtension(p)
    THEN [p EXCEPT !.segs = Front(p.segs) \o <<Front(Last(p.segs))>>]
    ELSE p

setExtension(p, e) == AppendExt(clearExtension(p), e)

takeFilename(p) == IF p.segs = <<>> THEN Empty ELSE Bare(<<Last(p.segs)>>)

dotExtension(e) == [e EXCEPT !.dot = TRUE]

-----------------------------------------------------------------------------
(* The directory tree the resolver runs on.  It does not change while the  *)
(* resolver lives.                                                         *)
(*   /project/fs.ts                                                        *)
(*   /project/src/{foo.ts, foo.js, style.css, style.scss}                  *)
(*   /project/src/{foo.model.ts, bar.model.ts, baz.model.ts}               *)
(*   /project/src/bar.model/index.ts                                       *)
(*   /project/node_modules/left-pad/{package.json, index.js}               *)
(*   /project/sub/node_modules/left-pad/{package.json, index.js,           *)
(*                                       esm/index.js}                     *)
(*   /project/node_modules/broken/package.json                             *)
(*   /project/sub/node_modules/broken/{package.json, index.js}             *)
(*   /a/lib/{package.json, index.js}       (no node_modules above /a)      *)
(*   /a/b/                                                                 *)

NODE_MODULES == Bare(<< <<"node_modules">> >>)
PACKAGE_JSON == Bare(<< <<"package", "json">> >>)

LeftPadDir == << <<"project">>, <<"node_modules">>, <<"left-pad">> >>
SubLeftPadDir == << <<"project">>, <<"sub">>, <<"node_modules">>, <<"left-pad">> >>
BrokenDir == << <<"project">>, <<"node_modules">>, <<"broken">> >>
SubBrokenDir == << <<"project">>, <<"sub">>, <<"node_modules">>, <<"broken">> >>
LibDir == << <<"a">>, <<"lib">> >>

Files ==
    { << <<"project">>, <<"fs", "ts">> >>,
      << <<"project">>, <<"src">>, <<"foo", "ts">> >>,
      << <<"project">>, <<"src">>, <<"foo", "js">> >>,
      << <<"project">>, <<"src">>, <<"style", "css">> >>,
      << <<"project">>, <<"src">>, <<"style", "scss">> >>,
      << <<"project">>, <<"src">>, <<"foo", "model", "ts">> >>,
      << <<"project">>, <<"src">>, <<"bar", "model", "ts">> >>,
      << <<"project">>, <<"src">>, <<"bar", "model">>, <<"index", "ts">> >>,
      << <<"project">>, <<"src">>, <<"baz", "model", "ts">> >>,
      LeftPadDir \o << <<"package", "json">> >>,
      LeftPadDir \o << <<"index", "js">> >>,
      SubLeftPadDir \o << <<"package", "json">> >>,
      SubLeftPadDir \o << <<"index", "js">> >>,
      SubLeftPadDir \o << <<"esm">>, <<"index", "js">> >>,
      BrokenDir \o << <<"package", "json">> >>,
      SubBrokenDir \o << <<"package", "json">> >>,
      SubBrokenDir \o << <<"index", "js">> >>,
      LibDir \o << <<"package", "json">> >>,
      LibDir \o << <<"index", "js">> >> }

\* every ancestor of a file is a directory; /a/b is an empty directory
Dirs ==
    UNION { { SubSeq(f, 1, n) : n \in 0..(Len(f) - 1) } : f \in Files }
        \cup { << <<"a">>, <<"b">> >> }

AllFields == {"module", "es2015", "jsnext:main", "main", "browser"}

NoFields == [f \in AllFields |-> Null]

\* the contents of the package.json files of the tree; the main of broken names
\* lib/main, and no file lib/main.* exists
Manifests ==
    [p \in { LeftPadDir \o << <<"package", "json">> >>,
             SubLeftPadDir \o << <<"package", "json">> >>,
             BrokenDir \o << <<"package", "json">> >>,
             SubBrokenDir \o << <<"package", "json">> >>,
             LibDir \o << <<"package", "json">> >> } |->
        IF p = SubLeftPadDir \o << <<"package", "json">> >>
        THEN [NoFields EXCEPT !["module"] = Rel(<< <<"esm">>, <<"index", "js">> >>),
                              !["main"] = Rel(<< <<"index", "js">> >>)]
        ELSE IF p \in { BrokenDir \o << <<"package", "json">> >>,
                        SubBrokenDir \o << <<"package", "json">> >> }
        THEN [NoFields EXCEPT !["main"] = Rel(<< <<"lib">>, <<"main">> >>)]
        ELSE [NoFields EXCEPT !["main"] = Bare(<< <<"index", "js">> >>)]]

-----------------------------------------------------------------------------
(* IFileLoader, the synchronous file-system collaborator *)

isFile(p) == p.m = "/" /\ p.segs \in Files

isDirectorySync(p) == p.m = "/" /\ p.segs \in Dirs

existsSync(p) == isFile(p) \/ isDirectorySync(p)

\* the first `${path}${ext}` that exists, over the allowed extensions in order
getWithFirstMatchedExtensionSync(path, allowed, excluded) ==
    LET hits == { i \in 1..Len(allowed) :
                    /\ allowed[i] \notin Range(excluded)
                    /\ isFile(AppendExt(path, allowed[i])) }
    IN IF hits = {} THEN Null
       ELSE AppendExt(path, allowed[CHOOSE i \in hits : \A j \in hits : i <= j])

\* is the last segment of the file name one that ends in extension e
EndsWithExt(segs, e) ==
    LET seg == Last(segs)
        n == Len(e.parts)
    IN Len(seg) > n /\ SubSeq(seg, Len(seg) - n + 1, Len(seg)) = e.parts

\* recursive listing of the files below a directory, filtered by extension
getAllInDirectorySync(from, allowed, excluded) ==
    { f \in Files :
        /\ Len(f) > Len(from.segs)
        /\ SubSeq(f, 1, Len(from.segs)) = from.segs
        /\ isDirectorySync(from)
        /\ \E i \in 1..Len(allowed) : EndsWithExt(f, allowed[i])
        /\ ~ \E i \in 1..Len(excluded) : EndsWithExt(f, excluded[i]) }

loadSync(p) == Manifests[p.segs]

-----------------------------------------------------------------------------
(* Program constants of ModuleUtilHost *)

DEFAULT_LIBRARY_ENTRY == Bare(<< <<"index", "js">> >>)

DEFAULT_TYPES_FOLDER == Bare(<< <<"@types">> >>)

DEFAULT_ALLOWED_EXTENSIONS ==
    << Ext(<<"ts">>), Ext(<<"tsx">>), Ext(<<"js">>), Ext(<<"mjs">>),
       Ext(<<"json">>), Ext(<<"d", "ts">>) >>

DEFAULT_EXCLUDED_EXTENSIONS == <<>>

DEFAULT_PACKAGE_FIELDS == <<"module", "es2015", "jsnext:main", "main">>

DEFAULT_BUILT_IN_MODULES ==
    { Bare(<< <<n>> >>) :
        n \in {"fs", "path", "buffer", "assert", "child_process", "cluster", "http",
               "https", "os", "crypto", "dns", "domain", "events", "net", "process",
               "punycode", "querystring", "readline", "repl", "stream",
               "string_decoder", "timers", "tls", "tty", "dgram", "url", "util",
               "module", "vm", "zlib", "constants"} }

-----------------------------------------------------------------------------
(* Results.  A call either returns a string (ok) or throws a ReferenceError *)
(* of one kind (err); probed tells whether it called the file loader.       *)

Ok(v, probed) == [ok |-> TRUE, val |-> v, err |-> "none", probed |-> probed]
Err(e, probed) == [ok |-> FALSE, val |-> Null, err |-> e, probed |-> probed]

-----------------------------------------------------------------------------
(* Options *)

Absent == [given |-> FALSE, items |-> <<>>]
Given(items) == [given |-> TRUE, items |-> items]

\* setOptions() without an argument
NoOptions ==
    [given |-> FALSE, extraExtensions |-> Absent, extraPackageFields |-> Absent,
     extraBuiltInModules |-> Absent]

takeExtraExtensions(options) ==
    IF ~options.given \/ ~options.extraExtensions.given THEN <<>>
    ELSE [i \in 1..Len(options.extraExtensions.items) |->
            dotExtension(options.extraExtensions.items[i])]

takeExtraPackageFields(options) ==
    IF ~options.given \/ ~options.extraPackageFields.given THEN <<>>
    ELSE options.extraPackageFields.items

takeExtraBuiltInModules(options) ==
    IF ~options.given \/ ~options.extraBuiltInModules.given THEN <<>>
    ELSE options.extraBuiltInModules.items

-----------------------------------------------------------------------------
(* Walks *)

\* the loop of traceDown at _current = cur, for cur # "/"
RECURSIVE traceDownLoop(_, _)
traceDownLoop(target, cur) ==
    LET targetPath == Join(cur, target)
        up == Parent(cur)
    IN IF existsSync(targetPath) THEN targetPath
       \* a relative path that has climbed to "./" climbs to "../" next
       ELSE IF cur.m # "/" /\ cur.segs = <<>> THEN Null
       ELSE IF up = Root THEN targetPath
       ELSE traceDownLoop(target, up)

traceDown(target, current) ==
    IF current = Root THEN Null ELSE traceDownLoop(target, current)

\* the first file of the recursive listing whose file name is the target
findInDirectory(target, from) ==
    LET files == getAllInDirectorySync(from, allowedExtensions, excludedExtensions)
        named == IF hasExtension(target)
                 THEN { f \in files : takeFilename(Abs(f)) = target }
                 ELSE { f \in files :
                          \E i \in 1..Len(allowedExtensions) :
                             takeFilename(Abs(f)) = setExtension(target, allowedExtensions[i]) }
    IN IF named = {} THEN Null
       ELSE Abs(CHOOSE f \in named : \A g \in named : Len(f) <= Len(g))

RECURSIVE traceUp(_, _, _)

\* the body of traceUp, for the value from of its second argument
traceUpFrom(target, from, lookingForParentNodeModules) ==
    LET withinBase == Join(from, target)
        file == takeFilename(from)
        typesUp == Join(Join(Parent(from), DEFAULT_TYPES_FOLDER), file)
        parentUp == Join(Parent(Parent(from)), file)
    IN IF existsSync(withinBase) THEN Ok(withinBase, TRUE)
       ELSE IF ~existsSync(from)
       THEN IF from = Root \/ from = Join(Root, target)
            THEN Err("InvalidAncestorPath", TRUE)
            ELSE IF ~lookingForParentNodeModules /\ ~Includes(from, "@types")
            THEN IF typesUp = Root \/ typesUp = Join(Root, file)
                 THEN Err("InvalidAncestorPath", TRUE)
                 ELSE traceUp(target, typesUp, FALSE)
            ELSE IF parentUp = Root \/ parentUp = Join(Root, file)
                 THEN Err("InvalidAncestorPath", TRUE)
                 ELSE traceUp(target, parentUp, TRUE)
       ELSE Ok(findInDirectory(target, from), TRUE)

\* the argument from is evaluated once, at the call, as JavaScript does
traceUp(target, from, lookingForParentNodeModules) ==
    CHOOSE r \in { traceUpFrom(target, dir, lookingForParentNodeModules) :
                      dir \in {from} } : TRUE

-----------------------------------------------------------------------------
(* Library location *)

resolveNodeModuleDirectory(libName, from) ==
    IF Includes(libName, "node_modules") THEN Ok(libName, FALSE)
    ELSE LET tracedNodeModules == traceDown(NODE_MODULES, from)
         IN IF tracedNodeModules = Null
            THEN Err("DependencyRootNotFound", from # Root)
            ELSE Ok(Join(tracedNodeModules, libName), TRUE)

resolvePackageJson(libDirectory) == traceUp(PACKAGE_JSON, libDirectory, FALSE)

parsePackageJson(packageJsonPath) == loadSync(packageJsonPath)

\* the for loop over this.packageFields, from the i-th field on
RECURSIVE scanPackageFields(_, _, _)
scanPackageFields(pkg, fields, i) ==
    IF i > Len(fields) THEN Null
    ELSE IF pkg[fields[i]] # Null THEN pkg[fields[i]]
    ELSE scanPackageFields(pkg, fields, i + 1)

takeLibEntryPathFromPackage(pkg, packageJsonPath) ==
    LET found == scanPackageFields(pkg, packageFields, 1)
        candidate == IF found = Null \/ found = Empty
                     THEN clearExtension(DEFAULT_LIBRARY_ENTRY)
                     ELSE found
    IN Join(Parent(packageJsonPath), candidate)

resolveLibEntry(packageJsonPath) ==
    takeLibEntryPathFromPackage(parsePackageJson(packageJsonPath), packageJsonPath)

\* traceLib, lines 133-145: the entry the manifest names
traceLibEntry(entry) ==
    LET path == getWithFirstMatchedExtensionSync(
                    entry, allowedExtensions, excludedExtensions)
    IN IF hasExtension(entry) THEN Ok(entry, TRUE)
       ELSE IF path = Null THEN Err("PackageEntryNotFound", TRUE)
       ELSE Ok(path, TRUE)

\* traceLib, lines 119-133: the manifest search has ended with packageJSONPath
traceLibManifest(directory, packageJSONPath) ==
    LET indexPath == getWithFirstMatchedExtensionSync(
                         Join(directory, clearExtension(DEFAULT_LIBRARY_ENTRY)),
                         allowedExtensions, excludedExtensions)
    IN IF ~packageJSONPath.ok THEN packageJSONPath
       ELSE IF packageJSONPath.val = Null
            THEN IF indexPath # Null THEN Ok(indexPath, TRUE)
                 ELSE Err("PackageManifestNotFound", TRUE)
       ELSE traceLibEntry(resolveLibEntry(packageJSONPath.val))

\* traceLib, lines 115-119: the library directory is known
traceLibDirectory(directory) ==
    LET scriptPath == getWithFirstMatchedExtensionSync(
                          directory, allowedExtensions, excludedExtensions)
    IN IF scriptPath # Null THEN Ok(scriptPath, TRUE)
       ELSE traceLibManifest(directory, resolvePackageJson(directory))

traceLib(libName, from) ==
    LET dir == resolveNodeModuleDirectory(libName, from)
    IN IF libName \in builtInModules THEN Ok(libName, FALSE)
       ELSE IF ~dir.ok THEN dir
       ELSE traceLibDirectory(dir.val)

-----------------------------------------------------------------------------
(* File probing *)

indexExists(path) ==
    getWithFirstMatchedExtensionSync(
        Join(path, clearExtension(DEFAULT_LIBRARY_ENTRY)),
        allowedExtensions, excludedExtensions)

existsWithExtension(path) ==
    LET existsPath == getWithFirstMatchedExtensionSync(
                          path, allowedExtensions, excludedExtensions)
    IN IF existsPath = Null THEN indexExists(path) ELSE existsPath

existsWithClearedExtension(path) ==
    LET existsPath == getWithFirstMatchedExtensionSync(
                          clearExtension(path), allowedExtensions, excludedExtensions)
    IN IF existsPath = Null THEN indexExists(path) ELSE existsPath

fileExists(path) ==
    IF ~isDirectorySync(path) /\ existsSync(path) THEN path
    ELSE LET withoutExtension == existsWithClearedExtension(path)
         IN IF withoutExtension # Null THEN withoutExtension
            ELSE existsWithExtension(path)

findFullPath(absolutePath) ==
    LET path == fileExists(absolutePath)
    IN IF path = Null THEN Err("FileNotFound", TRUE) ELSE Ok(path, TRUE)

-----------------------------------------------------------------------------
(* The cache and the entry point *)

\* a lookup that never finds the key: the cache check left out
cacheGetMiss(cache, key) == Null

\* RESOLVED_PATHS.get(key)
cacheGet(cache, key) == IF key \in DOMAIN cache THEN cache[key] ELSE Null

\* RESOLVED_PATHS.set(key, value)
cacheSet(cache, key, value) ==
    [k \in DOMAIN cache \cup {key} |-> IF k = key THEN value ELSE cache[k]]

WithCache(r, cache) ==
    [ok |-> r.ok, val |-> r.val, err |-> r.err, probed |-> r.probed, cache |-> cache]

\* traceFullPath, lines 294-299: the absolute path is not cached
traceFileMiss(absolute, cache, tracedFullPath) ==
    IF tracedFullPath.ok
    THEN WithCache(tracedFullPath, cacheSet(cache, absolute, tracedFullPath.val))
    ELSE WithCache(tracedFullPath, cache)

\* traceFullPath, lines 287-299: the lookup of the path as a file below from
traceFile(filePath, from, cache, probed) ==
    LET absolute == makeAbsolute(filePath, from)
        cachedFullPath == cacheGet(cache, absolute)
    IN IF cachedFullPath # Null THEN WithCache(Ok(cachedFullPath, probed), cache)
       ELSE traceFileMiss(absolute, cache, findFullPath(absolute))

\* the result is the outcome of the call together with the cache it leaves
RECURSIVE traceFullPath(_, _, _)

\* a retry from the parent directory, after a failed attempt that probed or not
traceRetry(filePath, from, cache, probed) ==
    LET retried == traceFullPath(filePath, Parent(from), cache)
    IN [retried EXCEPT !.probed = @ \/ probed]

\* traceFullPath, lines 269-285: traceLib has returned or thrown tracedLib
traceLibTraced(filePath, from, cache, tracedLib) ==
    IF tracedLib.ok
    THEN traceFile(filePath, from, cacheSet(cache, filePath, tracedLib.val),
                   tracedLib.probed)
    ELSE IF from # Root THEN traceRetry(filePath, from, cache, tracedLib.probed)
    ELSE WithCache(tracedLib, cache)

traceFullPath(filePath, from, cache) ==
    LET cachedLib == cacheGet(cache, filePath)
    IN IF isLib(filePath)
       THEN IF cachedLib # Null THEN WithCache(Ok(cachedLib, FALSE), cache)
            ELSE traceLibTraced(filePath, from, cache, traceLib(filePath, from))
       ELSE traceFile(filePath, from, cache, FALSE)

-----------------------------------------------------------------------------
(* Inputs *)

\* the specifiers passed to resolvePath
FilePaths ==
    { Rel(<< <<"src">>, <<"foo">> >>),
      Rel(<< <<"src">>, <<"style">> >>),
      Bare(<< <<"left-pad">> >>),
      Bare(<< <<"fs">> >>),
      Bare(<< <<"lib">> >>),
      Bare(<< <<"broken">> >>) }

\* the directories resolvePath is called from
FromDirs ==
    { Abs(<< <<"project">> >>),
      Abs(<< <<"project">>, <<"sub">> >>),
      Abs(<< <<"a">> >>),
      Root }

\* the arguments passed to setOptions
OptionChoices ==
    { NoOptions,
      [NoOptions EXCEPT !.given = TRUE,
                        !.extraExtensions = Given(<< Ext(<<"css">>) >>)],
      [NoOptions EXCEPT !.given = TRUE,
                        !.extraExtensions = Given(<< RawExt(<<"scss">>) >>)],
      [NoOptions EXCEPT !.given = TRUE,
                        !.extraPackageFields = Given(<< "browser" >>)],
      [NoOptions EXCEPT !.given = TRUE,
                        !.extraBuiltInModules = Given(<< Bare(<< <<"left-pad">> >>) >>)],
      \* extras that repeat defaults
      [NoOptions EXCEPT !.given = TRUE,
                        !.extraExtensions = Given(<< RawExt(<<"ts">>), Ext(<<"css">>) >>),
                        !.extraPackageFields = Given(<< "main", "browser" >>),
                        !.extraBuiltInModules = Given(<< Bare(<< <<"fs">> >>) >>)] }

\* the values a manifest field can have: absent, "", or an entry path
FieldValues ==
    { Null, Empty,
      Rel(<< <<"esm">>, <<"index", "js">> >>),
      Rel(<< <<"index", "js">> >>) }

\* the manifest whose entry is computed
ManifestPath == Abs(LeftPadDir \o << <<"package", "json">> >>)

-----------------------------------------------------------------------------
(* State machine *)

NoCall ==
    [op |-> "none", filePath |-> Null, from |-> Null, ok |-> FALSE, val |-> Null,
     err |-> "none", probed |-> FALSE, first |-> FALSE, libCached |-> FALSE,
     absCached |-> FALSE, builtin |-> FALSE, tracedLib |-> Err("none", FALSE),
     tracedFile |-> Err("none", FALSE), allowed |-> <<>>]

\* options that replace the defaults instead of extending them
optionsAfterReplacing(options) ==
    [allowedExtensions |->
         IF takeExtraExtensions(options) = <<>> THEN DEFAULT_ALLOWED_EXTENSIONS
         ELSE Dedupe(takeExtraExtensions(options)),
     excludedExtensions |-> Dedupe(DEFAULT_EXCLUDED_EXTENSIONS),
     packageFields |->
         IF takeExtraPackageFields(options) = <<>> THEN DEFAULT_PACKAGE_FIELDS
         ELSE Dedupe(takeExtraPackageFields(options)),
     builtInModules |->
         IF takeExtraBuiltInModules(options) = <<>> THEN DEFAULT_BUILT_IN_MODULES
         ELSE Range(takeExtraBuiltInModules(options))]

\* no walk is followed
NoWalk ==
    [op |-> "none", target |-> Null, start |-> Null, cur |-> Null,
     looking |-> FALSE, val |-> Null, steps |-> 0, types |-> 0, nested |-> 0,
     done |-> TRUE, ok |-> FALSE, err |-> "none"]

\* the fields setOptions assigns, as a record
optionsAfter(options) ==
    [allowedExtensions |->
         Dedupe(DEFAULT_ALLOWED_EXTENSIONS \o takeExtraExtensions(options)),
     excludedExtensions |-> Dedupe(DEFAULT_EXCLUDED_EXTENSIONS),
     packageFields |->
         Dedupe(DEFAULT_PACKAGE_FIELDS \o takeExtraPackageFields(options)),
     builtInModules |->
         DEFAULT_BUILT_IN_MODULES \cup Range(takeExtraBuiltInModules(options))]

\* the constructor calls setOptions(); RESOLVED_PATHS is a new Map
Init ==
    /\ allowedExtensions = optionsAfter(NoOptions).allowedExtensions
    /\ excludedExtensions = optionsAfter(NoOptions).excludedExtensions
    /\ packageFields = optionsAfter(NoOptions).packageFields
    /\ builtInModules = optionsAfter(NoOptions).builtInModules
    /\ RESOLVED_PATHS = << >>
    /\ last = NoCall
    /\ firstOutcome = << >>
    /\ calls = 0
    /\ packageJson = NoFields
    /\ libEntry = Null
    /\ lastOptions = NoOptions
    /\ walk = NoWalk

setOptions(options) ==
    /\ allowedExtensions' = optionsAfter(options).allowedExtensions
    /\ excludedExtensions' = optionsAfter(options).excludedExtensions
    /\ packageFields' = optionsAfter(options).packageFields
    /\ builtInModules' = optionsAfter(options).builtInModules
    /\ lastOptions' = options
    /\ UNCHANGED <<RESOLVED_PATHS, last, firstOutcome, calls, packageJson, libEntry,
                   walk>>

\* new ModuleUtilHost(fileLoader, pathUtil): another resolver takes the place of the
\* one in use; its fields are set by setOptions(), the static RESOLVED_PATHS stays
construct ==
    /\ allowedExtensions' = optionsAfter(NoOptions).allowedExtensions
    /\ excludedExtensions' = optionsAfter(NoOptions).excludedExtensions
    /\ packageFields' = optionsAfter(NoOptions).packageFields
    /\ builtInModules' = optionsAfter(NoOptions).builtInModules
    /\ last' = [NoCall EXCEPT !.op = "construct"]
    /\ firstOutcome' = << >>
    /\ lastOptions' = NoOptions
    /\ UNCHANGED <<RESOLVED_PATHS, calls, packageJson, libEntry, walk>>

\* the call has ended with r; t is what traceLib gives for the same arguments, and
\* tracedFile is what findFullPath gives for them, both under the present options
resolvePathReturns(filePath, from, r, t) ==
    /\ RESOLVED_PATHS' = r.cache
    /\ last' = [op |-> "resolvePath", filePath |-> filePath, from |-> from,
                ok |-> r.ok, val |-> r.val, err |-> r.err, probed |-> r.probed,
                first |-> <<filePath, from>> \notin DOMAIN firstOutcome,
                libCached |-> cacheGet(RESOLVED_PATHS, filePath) # Null,
                absCached |->
                    cacheGet(RESOLVED_PATHS, makeAbsolute(filePath, from)) # Null,
                builtin |-> filePath \in builtInModules,
                tracedLib |-> IF isLib(filePath) THEN t ELSE Err("none", FALSE),
                tracedFile |-> IF isLib(filePath) THEN Err("none", FALSE)
                               ELSE findFullPath(makeAbsolute(filePath, from)),
                allowed |-> allowedExtensions]
    /\ firstOutcome' =
          IF <<filePath, from>> \in DOMAIN firstOutcome THEN firstOutcome
          ELSE [k \in DOMAIN firstOutcome \cup {<<filePath, from>>} |->
                  IF k = <<filePath, from>>
                  THEN [ok |-> r.ok, val |-> r.val, err |-> r.err]
                  ELSE firstOutcome[k]]

resolvePath(filePath, from) ==
    /\ calls < MaxCalls
    /\ resolvePathReturns(filePath, from,
                          traceFullPath(filePath, from, RESOLVED_PATHS),
                          traceLib(filePath, from))
    /\ calls' = calls + 1
    /\ UNCHANGED <<allowedExtensions, excludedExtensions, packageFields,
                   builtInModules, packageJson, libEntry, lastOptions, walk>>

Next ==
    \/ construct
    \/ \E options \in OptionChoices : setOptions(options)
    \/ \E filePath \in FilePaths, from \in FromDirs : resolvePath(filePath, from)

Spec == Init /\ [][Next]_vars

-----------------------------------------------------------------------------
(* takeLibEntryPathFromPackage on its own: every manifest over the fields,  *)
(* under every configuration of the package fields                          *)

InitEntry ==
    /\ \E options \in OptionChoices :
          /\ allowedExtensions = optionsAfter(options).allowedExtensions
          /\ excludedExtensions = optionsAfter(options).excludedExtensions
          /\ packageFields = optionsAfter(options).packageFields
          /\ builtInModules = optionsAfter(options).builtInModules
          /\ lastOptions = options
    /\ RESOLVED_PATHS = << >>
    /\ last = NoCall
    /\ firstOutcome = << >>
    /\ calls = 0
    /\ packageJson \in [AllFields -> FieldValues]
    /\ libEntry = Null
    /\ walk = NoWalk

takeLibEntry ==
    /\ libEntry = Null
    /\ libEntry' = takeLibEntryPathFromPackage(packageJson, ManifestPath)
    /\ UNCHANGED <<allowedExtensions, excludedExtensions, packageFields,
                   builtInModules, RESOLVED_PATHS, last, firstOutcome, calls,
                   packageJson, lastOptions, walk>>

NextEntry == takeLibEntry

SpecEntry == InitEntry /\ [][NextEntry]_vars

-----------------------------------------------------------------------------
(* resolvePath of file names that end in a suffix which is no extension,   *)
(* under every configuration                                               *)

\* specifiers with the suffix .model: foo.model.ts has the sibling foo.ts,
\* bar.model.ts the directory bar.model with an index file, baz.model.ts neither
DottedFilePaths ==
    { Rel(<< <<"src">>, <<"foo", "model">> >>),
      Rel(<< <<"src">>, <<"bar", "model">> >>),
      Rel(<< <<"src">>, <<"baz", "model">> >>),
      Abs(<< <<"project">>, <<"src">>, <<"foo", "model">> >>) }

InitFile ==
    /\ \E options \in OptionChoices :
          /\ allowedExtensions = optionsAfter(options).allowedExtensions
          /\ excludedExtensions = optionsAfter(options).excludedExtensions
          /\ packageFields = optionsAfter(options).packageFields
          /\ builtInModules = optionsAfter(options).builtInModules
          /\ lastOptions = options
    /\ RESOLVED_PATHS = << >>
    /\ last = NoCall
    /\ firstOutcome = << >>
    /\ calls = 0
    /\ packageJson = NoFields
    /\ libEntry = Null
    /\ walk = NoWalk

NextFile ==
    \E filePath \in DottedFilePaths, from \in FromDirs : resolvePath(filePath, from)

SpecFile == InitFile /\ [][NextFile]_vars

-----------------------------------------------------------------------------
(* The walks on their own, one pass of a loop or one invocation at a time:   *)
(* traceDown("node_modules", from), traceUp("package.json", libDirectory)   *)
(* and traceFullPath(libName, from) with its retries, on an empty cache,     *)
(* under every configuration                                                *)

\* the directories a walk starts from: every directory of the tree
WalkDirs == { Abs(d) : d \in Dirs }

\* the library specifiers passed to resolvePath
LibNames == { f \in FilePaths : isLib(f) }

\* the library directories resolveNodeModuleDirectory hands to resolvePackageJson
LibDirectories ==
    { resolveNodeModuleDirectory(f, d).val :
        <<f, d>> \in { p \in LibNames \X WalkDirs :
                         resolveNodeModuleDirectory(p[1], p[2]).ok } }

\* the entry into a walk
Walk(op, target, start) ==
    [NoWalk EXCEPT !.op = op, !.target = target, !.start = start, !.cur = start,
                   !.done = FALSE]

WalkStarts ==
    { Walk("traceDown", NODE_MODULES, d) : d \in WalkDirs }
        \cup { Walk("traceUp", PACKAGE_JSON, d) : d \in LibDirectories }
        \cup { Walk("traceFullPath", p[1], p[2]) : p \in LibNames \X WalkDirs }

InitWalk ==
    /\ \E options \in OptionChoices :
          /\ allowedExtensions = optionsAfter(options).allowedExtensions
          /\ excludedExtensions = optionsAfter(options).excludedExtensions
          /\ packageFields = optionsAfter(options).packageFields
          /\ builtInModules = optionsAfter(options).builtInModules
          /\ lastOptions = options
    /\ RESOLVED_PATHS = << >>
    /\ last = NoCall
    /\ firstOutcome = << >>
    /\ calls = 0
    /\ packageJson = NoFields
    /\ libEntry = Null
    /\ walk \in WalkStarts

\* the walk returns v
Returns(w, v) == [w EXCEPT !.done = TRUE, !.ok = TRUE, !.val = v]

\* the walk throws e
Throws(w, e) == [w EXCEPT !.done = TRUE, !.ok = FALSE, !.val = Null, !.err = e]

\* the loop does not move to the parent directory
traceDownStepStays ==
    /\ walk.op = "traceDown" /\ ~walk.done
    /\ LET targetPath == Join(walk.cur, walk.target)
       IN walk' =
            IF walk.cur = Root THEN Returns(walk, walk.val)
            ELSE IF existsSync(targetPath)
            THEN [Returns(walk, targetPath) EXCEPT !.steps = @ + 1]
            ELSE [walk EXCEPT !.val = targetPath]
    /\ UNCHANGED <<allowedExtensions, excludedExtensions, packageFields,
                   builtInModules, RESOLVED_PATHS, last, firstOutcome, calls,
                   packageJson, libEntry, lastOptions>>

\* traceDown: the test of the while loop and one pass through its body; walk.val
\* holds targetPath
traceDownStep ==
    /\ walk.op = "traceDown" /\ ~walk.done
    /\ LET targetPath == Join(walk.cur, walk.target)
           up == Parent(walk.cur)
       IN walk' =
            IF walk.cur = Root THEN Returns(walk, walk.val)
            ELSE IF existsSync(targetPath)
            THEN [Returns(walk, targetPath) EXCEPT !.steps = @ + 1]
            ELSE IF walk.cur.m # "/" /\ walk.cur.segs = <<>>
            THEN [Returns(walk, Null) EXCEPT !.steps = @ + 1]
            ELSE [walk EXCEPT !.cur = up, !.val = targetPath, !.steps = @ + 1]
    /\ UNCHANGED <<allowedExtensions, excludedExtensions, packageFields,
                   builtInModules, RESOLVED_PATHS, last, firstOutcome, calls,
                   packageJson, libEntry, lastOptions>>

\* traceUp: one invocation, which returns, throws or calls itself from another place
traceUpStep ==
    /\ walk.op = "traceUp" /\ ~walk.done
    /\ LET from == walk.cur
           withinBase == Join(from, walk.target)
           file == takeFilename(from)
           typesUp == Join(Join(Parent(from), DEFAULT_TYPES_FOLDER), file)
           parentUp == Join(Parent(Parent(from)), file)
       IN walk' =
            IF existsSync(withinBase) THEN Returns(walk, withinBase)
            ELSE IF ~existsSync(from)
            THEN IF from = Root \/ from = Join(Root, walk.target)
                 THEN Throws(walk, "InvalidAncestorPath")
                 ELSE IF ~walk.looking /\ ~Includes(from, "@types")
                 THEN IF typesUp = Root \/ typesUp = Join(Root, file)
                      THEN Throws(walk, "InvalidAncestorPath")
                      ELSE [walk EXCEPT !.cur = typesUp, !.looking = FALSE,
                                        !.types = @ + 1, !.steps = @ + 1]
                 ELSE IF parentUp = Root \/ parentUp = Join(Root, file)
                      THEN Throws(walk, "InvalidAncestorPath")
                      ELSE [walk EXCEPT !.cur = parentUp, !.looking = TRUE,
                                        !.nested = @ + 1, !.steps = @ + 1]
            ELSE Returns(walk, findInDirectory(walk.target, from))
    /\ UNCHANGED <<allowedExtensions, excludedExtensions, packageFields,
                   builtInModules, RESOLVED_PATHS, last, firstOutcome, calls,
                   packageJson, libEntry, lastOptions>>

\* the end of a traceFullPath invocation in which traceLib returned
FullPathEnds(w, r) ==
    [w EXCEPT !.done = TRUE, !.ok = r.ok, !.val = r.val, !.err = r.err]

\* the retry is made from the directory two levels up
traceFullPathStepSkips ==
    /\ walk.op = "traceFullPath" /\ ~walk.done
    /\ LET tracedLib == traceLib(walk.target, walk.cur)
       IN walk' =
            IF tracedLib.ok
            THEN FullPathEnds(walk, traceLibTraced(walk.target, walk.cur,
                                                   RESOLVED_PATHS, tracedLib))
            ELSE IF walk.cur # Root
            THEN [walk EXCEPT !.cur = Parent(Parent(walk.cur)), !.steps = @ + 1]
            ELSE Throws(walk, tracedLib.err)
    /\ UNCHANGED <<allowedExtensions, excludedExtensions, packageFields,
                   builtInModules, RESOLVED_PATHS, last, firstOutcome, calls,
                   packageJson, libEntry, lastOptions>>

\* traceFullPath of a library specifier: one invocation, which ends the call or, when
\* traceLib throws below the root, calls itself from the parent directory
traceFullPathStep ==
    /\ walk.op = "traceFullPath" /\ ~walk.done
    /\ LET tracedLib == traceLib(walk.target, walk.cur)
       IN walk' =
            IF tracedLib.ok
            THEN FullPathEnds(walk, traceLibTraced(walk.target, walk.cur,
                                                   RESOLVED_PATHS, tracedLib))
            ELSE IF walk.cur # Root
            THEN [walk EXCEPT !.cur = Parent(walk.cur), !.steps = @ + 1]
            ELSE Throws(walk, tracedLib.err)
    /\ UNCHANGED <<allowedExtensions, excludedExtensions, packageFields,
                   builtInModules, RESOLVED_PATHS, last, firstOutcome, calls,
                   packageJson, libEntry, lastOptions>>

NextWalk ==
    \/ traceDownStep
    \/ traceUpStep
    \/ traceFullPathStep

SpecWalk == InitWalk /\ [][NextWalk]_vars

\* a call that has been entered goes on running until it returns or throws
SpecWalkFair == SpecWalk /\ WF_vars(NextWalk)

-----------------------------------------------------------------------------
(* Properties *)

LastCall == last.op = "resolvePath"

LastKey == <<last.filePath, last.from>>

LastAbsolute == makeAbsolute(last.filePath, last.from)

\* C1: a resolvePath call that repeats the arguments of a first call that
\* returned a path p returns p again and does not touch the file system
C1_Idempotence ==
    (LastCall /\ ~last.first /\ firstOutcome[LastKey].ok)
        => /\ last.ok
           /\ last.val = firstOutcome[LastKey].val
           /\ ~last.probed

\* C2: when the library is not cached and traceLib locates a non-builtin library
\* at p, resolvePath returns p and the cache maps the specifier to p
C2_LibraryReturned ==
    (LastCall /\ isLib(last.filePath) /\ ~last.builtin /\ ~last.libCached
             /\ last.tracedLib.ok)
        => /\ last.ok
           /\ last.val = last.tracedLib.val
           /\ cacheGet(RESOLVED_PATHS, last.filePath) = last.tracedLib.val

\* C3: resolvePath of a built-in module returns the specifier unchanged and
\* does not touch the file system
C3_BuiltinShortCircuit ==
    (LastCall /\ last.builtin)
        => /\ last.ok
           /\ last.val = last.filePath
           /\ ~last.probed

\* the files a probe of path with the extensions of allowed could match
ProbeHits(path, allowed) ==
    { i \in 1..Len(allowed) : isFile(AppendExt(path, allowed[i])) }

\* C4: for a relative specifier without an extension whose base path is no file,
\* resolvePath returns the base path with the first allowed extension, in the order
\* of allowedExtensions, for which such a file exists
C4_ExtensionPriority ==
    (LastCall /\ ~isLib(last.filePath) /\ ~hasExtension(last.filePath)
             /\ ~isFile(LastAbsolute)
             /\ ProbeHits(LastAbsolute, last.allowed) # {})
        => /\ last.ok
           /\ \E i \in ProbeHits(LastAbsolute, last.allowed) :
                 /\ \A j \in ProbeHits(LastAbsolute, last.allowed) : i <= j
                 /\ last.val = AppendExt(LastAbsolute, last.allowed[i])

\* no file stands for the path: not the path itself, not the path with an allowed
\* extension (its own suffix kept or cleared), not an index file inside it
NothingOnDisk(path, allowed) ==
    /\ ~isFile(path)
    /\ ProbeHits(path, allowed) = {}
    /\ ProbeHits(clearExtension(path), allowed) = {}
    /\ ProbeHits(Join(path, Bare(<< <<"index">> >>)), allowed) = {}

\* C7: resolvePath of a relative or absolute file specifier for which nothing is on
\* disk raises FileNotFound
C7_MissingFile ==
    (LastCall /\ ~isLib(last.filePath) /\ NothingOnDisk(LastAbsolute, last.allowed))
        => /\ ~last.ok
           /\ last.err = "FileNotFound"

\* neither the directory nor any of its ancestors contains node_modules
NoDependencyRoot(from) ==
    \A n \in 0..Len(from.segs) :
        ~existsSync(Join(Abs(SubSeq(from.segs, 1, n)), NODE_MODULES))

\* C8: resolvePath of a non-builtin library from a directory without a dependency
\* root in any ancestor raises DependencyRootNotFound
C8_MissingDependencyRoot ==
    (LastCall /\ isLib(last.filePath) /\ ~last.builtin /\ NoDependencyRoot(last.from))
        => /\ ~last.ok
           /\ last.err = "DependencyRootNotFound"

\* C9: an entry of the cache is never removed and never given another value
C9_CacheWriteOnce ==
    [][\A k \in DOMAIN RESOLVED_PATHS :
          /\ k \in DOMAIN RESOLVED_PATHS'
          /\ RESOLVED_PATHS'[k] = RESOLVED_PATHS[k]]_vars

\* a path that was cached is resolved again under options that would now find
\* another file for it, and the cached entry is still the one returned
C9_Witness ==
    /\ LastCall /\ ~isLib(last.filePath) /\ last.absCached
    /\ last.allowed = allowedExtensions
    /\ findFullPath(LastAbsolute).ok
    /\ findFullPath(LastAbsolute).val # RESOLVED_PATHS[LastAbsolute]
    /\ last.val = RESOLVED_PATHS[LastAbsolute]

\* C10: a library that is already cached, resolved from a directory whose own
\* dependency root holds another copy, resolves to that other copy
C10_CachePerContext ==
    (LastCall /\ isLib(last.filePath) /\ ~last.builtin /\ last.libCached
             /\ last.tracedLib.ok
             /\ last.tracedLib.val # RESOLVED_PATHS[last.filePath])
        => /\ last.ok
           /\ last.val = last.tracedLib.val

\* C11: a call that repeats a specifier resolved before, after setOptions, gives
\* what the present options determine: a built-in module is returned verbatim, a
\* library resolves to what traceLib locates now, a file to what findFullPath finds now
C11_OptionsApply ==
    /\ (LastCall /\ isLib(last.filePath) /\ ~last.first /\ last.libCached
                 /\ last.tracedLib.ok)
          => (last.ok /\ last.val = last.tracedLib.val)
    /\ (LastCall /\ ~isLib(last.filePath) /\ last.absCached)
          => /\ last.ok = last.tracedFile.ok
             /\ last.val = last.tracedFile.val
             /\ last.err = last.tracedFile.err

\* C12: a resolver that has just been constructed has no cache entries, and the
\* first call through a resolver finds nothing cached by another resolver
C12_CachePerInstance ==
    /\ last.op = "construct" => RESOLVED_PATHS = << >>
    /\ (LastCall /\ last.first /\ DOMAIN firstOutcome = {LastKey})
          => (~last.libCached /\ ~last.absCached)

\* the items of s that are not in the sequence defaults, in the order of s
Extras(s, defaults) ==
    LET NotDefault(x) == x \notin Range(defaults) IN SelectSeq(s, NotDefault)

\* the extensions of lastOptions, each with its leading dot
DottedExtras ==
    [i \in 1..Len(lastOptions.extraExtensions.items) |->
        Ext(lastOptions.extraExtensions.items[i].parts)]

\* C13: allowedExtensions is the default extensions in their order followed by the
\* dotted extras, packageFields the default fields in their order followed by the
\* extra fields, and builtInModules the default built-in modules and the extra ones
C13_OptionsExtend ==
    /\ allowedExtensions =
          DEFAULT_ALLOWED_EXTENSIONS \o Extras(DottedExtras, DEFAULT_ALLOWED_EXTENSIONS)
    /\ packageFields =
          DEFAULT_PACKAGE_FIELDS
              \o Extras(lastOptions.extraPackageFields.items, DEFAULT_PACKAGE_FIELDS)
    /\ DEFAULT_BUILT_IN_MODULES \subseteq builtInModules
    /\ builtInModules =
          DEFAULT_BUILT_IN_MODULES \cup Range(lastOptions.extraBuiltInModules.items)

\* setOptions was given an extension without its dot that repeats a default, a new
\* extension, a field that repeats a default and a new field
C13_Witness ==
    /\ RawExt(<<"ts">>) \in Range(lastOptions.extraExtensions.items)
    /\ Ext(<<"css">>) \in Range(lastOptions.extraExtensions.items)
    /\ "main" \in Range(lastOptions.extraPackageFields.items)
    /\ Len(allowedExtensions) = Len(DEFAULT_ALLOWED_EXTENSIONS) + 1
    /\ Len(packageFields) = Len(DEFAULT_PACKAGE_FIELDS) + 1

\* C14: when traceLib, from the directory of the call, fails with PackageEntryNotFound
\* or PackageManifestNotFound, that is the error resolvePath raises
C14_ErrorKindSurfaces ==
    (LastCall /\ isLib(last.filePath) /\ ~last.libCached
             /\ last.tracedLib.err \in {"PackageEntryNotFound", "PackageManifestNotFound"})
        => /\ ~last.ok
           /\ last.err = last.tracedLib.err

\* the ancestor of the start of the walk that is n levels up
Ancestor(n) == Abs(SubSeq(walk.start.segs, 1, Len(walk.start.segs) - n))

\* C15 as stated: a call retries at most once, so that library location is tried from
\* at most two directories
C15_SingleRetry ==
    walk.op = "traceFullPath" => walk.steps <= 1

\* C15: the n-th retry is made from the ancestor n levels up, there are at most as
\* many retries as the directory is deep, and an error of library location reaches
\* the caller only from the attempt made at the root
C15_RetryPerAncestor ==
    walk.op = "traceFullPath"
        => /\ walk.steps <= Len(walk.start.segs)
           /\ walk.cur = Ancestor(walk.steps)
           /\ (walk.done /\ ~walk.ok /\ walk.err # "FileNotFound") => walk.cur = Root

\* a call has failed after two retries or more
C15_Witness ==
    /\ walk.op = "traceFullPath" /\ walk.done /\ ~walk.ok
    /\ walk.steps >= 2
    /\ walk.cur = Root

\* the levels of from, counted from the root, whose directory holds node_modules
RootLevels(from) ==
    { n \in 0..Len(from.segs) :
        isDirectorySync(Join(Abs(SubSeq(from.segs, 1, n)), NODE_MODULES)) }

\* the node_modules directory nearest to from, when RootLevels(from) is not empty
NearestRoot(from) ==
    LET n == CHOOSE k \in RootLevels(from) : \A j \in RootLevels(from) : j <= k
    IN Join(Abs(SubSeq(from.segs, 1, n)), NODE_MODULES)

\* path p lies below directory d
Below(p, d) ==
    /\ p.m = "/"
    /\ Len(p.segs) > Len(d.segs)
    /\ SubSeq(p.segs, 1, Len(d.segs)) = d.segs

\* the directory of the library of the last call in the nearest node_modules
LastLibraryDirectory == Join(NearestRoot(last.from), last.filePath)

\* C16: a library that is present in the nearest node_modules resolves to a file
\* below its directory there
C16_NearestRootWins ==
    (LastCall /\ isLib(last.filePath) /\ ~last.builtin
             /\ RootLevels(last.from) # {}
             /\ isDirectorySync(LastLibraryDirectory))
        => /\ last.ok
           /\ Below(last.val, LastLibraryDirectory)

\* the manifest in directory dir names, in every field it has, a path without an
\* extension that no allowed extension completes to a file
EntryMatchesNothing(dir, allowed) ==
    /\ isFile(Join(dir, PACKAGE_JSON))
    /\ \E f \in AllFields : Manifests[Join(dir, PACKAGE_JSON).segs][f] \notin {Null, Empty}
    /\ \A f \in AllFields :
          LET v == Manifests[Join(dir, PACKAGE_JSON).segs][f]
          IN v \notin {Null, Empty}
                => (~hasExtension(v) /\ ProbeHits(Join(dir, v), allowed) = {})

\* C18: when the manifest of the library is found and its entry matches no file,
\* library location returns the index file of the library directory, if there is one
C18_EntryIndexFallback ==
    (LastCall /\ isLib(last.filePath) /\ ~last.builtin
             /\ RootLevels(last.from) # {}
             /\ ProbeHits(LastLibraryDirectory, last.allowed) = {}
             /\ EntryMatchesNothing(LastLibraryDirectory, last.allowed)
             /\ ProbeHits(Join(LastLibraryDirectory, Bare(<< <<"index">> >>)),
                          last.allowed) # {})
        => /\ last.tracedLib.ok
           /\ last.tracedLib.val \in
                 { AppendExt(Join(LastLibraryDirectory, Bare(<< <<"index">> >>)),
                             last.allowed[i]) : i \in 1..Len(last.allowed) }

\* the target is a child of a directory the walk visits: the start or an ancestor
\* of it below the root
OnTheWay ==
    \E n \in 0..(Len(walk.start.segs) - 1) : existsSync(Join(Ancestor(n), walk.target))

\* C17: traceDown returns null when no directory it visits has the target, and a
\* path it returns exists
C17_TraceDownNotFound ==
    (walk.op = "traceDown" /\ walk.done)
        => /\ walk.val # Null => existsSync(walk.val)
           /\ ~OnTheWay => walk.val = Null

\* C19: one manifest search takes the @types escalation at most once and the
\* escalation two levels up at most once
C19_BoundedEscalation ==
    walk.op = "traceUp" => (walk.types <= 1 /\ walk.nested <= 1)

C22_FailedCallKeepsCache ==
    (LastCall /\ ~last.ok)
        => /\ last.libCached \/ last.filePath \notin DOMAIN RESOLVED_PATHS
           /\ last.absCached \/ LastAbsolute \notin DOMAIN RESOLVED_PATHS

\* the last dot-suffix of the specifier of the last call, as an extension
LastSuffix == Ext(<< Last(Last(last.filePath.segs)) >>)

\* C21: a relative specifier that ends in a suffix which is no allowed extension, is no
\* file itself and names a file once an allowed extension is appended, resolves to
\* that file with the first such extension, the suffix kept
C21_DottedName ==
    (LastCall /\ last.filePath.m = "./" /\ ~last.absCached
             /\ hasExtension(last.filePath)
             /\ LastSuffix \notin Range(last.allowed)
             /\ ~isFile(LastAbsolute)
             /\ ProbeHits(LastAbsolute, last.allowed) # {})
        => /\ last.ok
           /\ \E i \in ProbeHits(LastAbsolute, last.allowed) :
                 /\ \A j \in ProbeHits(LastAbsolute, last.allowed) : i <= j
                 /\ last.val = AppendExt(LastAbsolute, last.allowed[i])

\* a field counts as present when it has a value other than the empty string
Present(i) == packageJson[packageFields[i]] \notin {Null, Empty}

\* C5: the entry path is the value of the first present field, in the order of
\* packageFields, joined to the directory of the manifest
C5_FieldPriority ==
    (libEntry # Null /\ \E i \in 1..Len(packageFields) : Present(i))
        => \E i \in 1..Len(packageFields) :
              /\ Present(i)
              /\ \A j \in 1..(i - 1) : ~Present(j)
              /\ libEntry = Join(Parent(ManifestPath), packageJson[packageFields[i]])

\* C6: when a field of higher priority is the empty string and the first non-empty
\* field after it has the value v, the entry path is v and not the default index
C6_EmptyFieldFallthrough ==
    libEntry # Null
        => \A i, j \in 1..Len(packageFields) :
              (/\ i < j
               /\ packageJson[packageFields[i]] = Empty
               /\ Present(j)
               /\ \A k \in 1..(j - 1) : ~Present(k))
                  => /\ libEntry = Join(Parent(ManifestPath), packageJson[packageFields[j]])
                     /\ libEntry # Join(Parent(ManifestPath), Bare(<< <<"index">> >>))

====
